---- MODULE Spec2Model ----
(***************************************************************************)
(* Model of src/main.py: the shop crawler (analyzeCategoryPage,            *)
(* extractItemsData, extractProductId, extractProductVariants,             *)
(* getProductsInfoFromCatalog, parseProduct, parseShop, saveToJsonFile,    *)
(* runScheduler).                                                          *)
(*                                                                         *)
(* Text is modelled as sequences of tokens, a fetched page as a record of  *)
(* the elements the selectors of the code read, and an optional Python     *)
(* value as None / Some(v).                                                *)
(***************************************************************************)
EXTENDS Integers, Sequences, FiniteSets, TLC

VARIABLES
    runPc,          \* position inside parseShop: idle, category, pages, save, done
    catIdx,         \* index into CATEGORIES of the category being processed
    categoryName,   \* categoryData["name"]
    pagesCount,     \* pagesCount returned by analyzeCategoryPage
    page,           \* loop variable of `for page in range(1, pagesCount + 1)`
    productsInfo,   \* list returned by getProductsInfoFromCatalog for `page`
    stubIdx,        \* position of the inner loop in productsInfo
    goods,          \* categoryData["goods"]
    result,         \* result list of parseShop
    file,           \* shop_data.json
    saveCalls,      \* number of saveToJsonFile invocations in the current run
    fileBefore,     \* history: shop_data.json when the current run started
    saveOutcome,    \* history: how the saveToJsonFile call of this run ended
    pagination,     \* history: what analyzeCategoryPage fetched for this category
    requested,      \* history: page URLs handed to makeRequest by the page loop
    seen,           \* history: the stubs the pages of this category returned, in order
    parsed,         \* history: every stub handed to parseProduct, with its result
    audit,          \* history: one record per entry of result
    abandoned,      \* history: categories whose processing raised
    schedPc,        \* position of __main__ / runScheduler
    now,            \* wall clock, in days since the process started
    nextRun,        \* next_run of the scheduled job
    activeRuns,     \* number of parseShop invocations that have started and not returned
    fnIn,           \* argument of the function under test (function-level specifications)
    fnOut           \* its result

vars == <<runPc, catIdx, categoryName, pagesCount, page, productsInfo, stubIdx, goods,
          result, file, saveCalls, fileBefore, saveOutcome, pagination, requested,
          seen, parsed, audit, abandoned, schedPc, now, nextRun, activeRuns, fnIn, fnOut>>

crawlVars == <<runPc, catIdx, categoryName, pagesCount, page, productsInfo, stubIdx,
               goods, result, file, saveCalls, fileBefore, saveOutcome, pagination,
               requested, seen, parsed, audit, abandoned>>

schedVars == <<schedPc, now, nextRun, activeRuns>>

fnVars == <<fnIn, fnOut>>

-----------------------------------------------------------------------------
(* Bounds of the model *)

\* pagination labels on one category page
MaxLabels == 2
\* listing elements on one catalog page
MaxElems == 2
\* days of wall clock the scheduler is followed for
MaxDays == 6

-----------------------------------------------------------------------------
(* Python values *)

None == [none |-> TRUE]

Some(v) == [some |-> v]

SeqUpTo(S, n) == UNION {[1..k -> S] : k \in 0..n}

Last(s) == s[Len(s)]

Front(s) == SubSeq(s, 1, Len(s) - 1)

IsPrefix(s, t) == Len(s) <= Len(t) /\ SubSeq(t, 1, Len(s)) = s

-----------------------------------------------------------------------------
(* Configuration, src/main.py lines 23-32 *)

\* A URL string as the list url.split("/") yields; a segment is a token list
\* whose "_" tokens are the underscores of the slug.
CATEGORIES ==
    << << <<"https:">>, <<>>, <<"www.zveromir.ru">>, <<"shop">>,
          <<"perenoski", "_", "dlya", "_", "sobak">>, <<>> >>,
       << <<"https:">>, <<>>, <<"www.zveromir.ru">>, <<"shop">>,
          <<"suhoy", "_", "korm", "_", "dlya", "_", "koshek">>, <<>> >>,
       << <<"https:">>, <<>>, <<"www.zveromir.ru">>, <<"shop">>,
          <<"furminatori">>, <<>> >> >>

\* A parsed URL: scheme, netloc and path; the path is its components after the
\* leading slash (abs) or from the current directory (~abs).
BASE_URL ==
    [scheme |-> "https", netloc |-> "www.zveromir.ru", path |-> [abs |-> TRUE, segs |-> <<"">>]]

EXECUTION_INTERVAL_DAYS == 3

-----------------------------------------------------------------------------
(* makeRequest, lines 35-46: the text of the page, or None after a           *)
(* RequestException. kind "raise" is an exception makeRequest does not catch *)
(* (anything that is no RequestException); kind "empty" is a body of "".     *)

FetchNone == [kind |-> "none"]

FetchEmpty == [kind |-> "empty"]

FetchRaise == [kind |-> "raise"]

Html(doc) == [kind |-> "html", doc |-> doc]

\* `not html`
NotHtml(fetched) == fetched.kind \in {"none", "empty"}

\* What the selectors of the code read from a page.
Doc(h1, pager, script, listing, description, image) ==
    [h1 |-> h1, pager |-> pager, script |-> script, listing |-> listing,
     description |-> description, image |-> image]

ScriptAbsent == [kind |-> "absent"]

ScriptMalformed == [kind |-> "malformed"]

ScriptJson(data) == [kind |-> "json", data |-> data]

-----------------------------------------------------------------------------
(* analyzeCategoryPage, lines 49-81 *)

\* str.title() on one token: a word gets its first letter in upper case.
TitleToken(tok) ==
    CASE tok = "perenoski" -> "Perenoski"
      [] tok = "dlya" -> "Dlya"
      [] tok = "sobak" -> "Sobak"
      [] tok = "suhoy" -> "Suhoy"
      [] tok = "korm" -> "Korm"
      [] tok = "koshek" -> "Koshek"
      [] tok = "furminatori" -> "Furminatori"
      [] tok = "shop" -> "Shop"
      [] tok = "https:" -> "Https:"
      [] tok = "www.zveromir.ru" -> "Www.Zveromir.Ru"
      [] OTHER -> tok

\* url.split("/")[-2].replace("_", " ").title(); IndexError when the split has
\* fewer than two parts.
UrlDerivedName(url) ==
    IF Len(url) < 2
    THEN [raised |-> TRUE]
    ELSE LET segment == url[Len(url) - 1]
             spaced == [i \in 1..Len(segment) |->
                           IF segment[i] = "_" THEN " " ELSE segment[i]]
         IN [raised |-> FALSE,
             value |-> [i \in 1..Len(spaced) |-> TitleToken(spaced[i])]]

Digits == {"0", "1", "2", "3", "4", "5", "6", "7", "8", "9"}

DigitValue(c) ==
    CASE c = "0" -> 0 [] c = "1" -> 1 [] c = "2" -> 2 [] c = "3" -> 3 [] c = "4" -> 4
      [] c = "5" -> 5 [] c = "6" -> 6 [] c = "7" -> 7 [] c = "8" -> 8 [] c = "9" -> 9

RECURSIVE DecimalValue(_)
DecimalValue(digits) ==
    IF digits = <<>> THEN 0
    ELSE 10 * DecimalValue(Front(digits)) + DigitValue(Last(digits))

\* int(text): an optional sign and at least one digit, ValueError otherwise.
ParseInt(text) ==
    LET signed == text # <<>> /\ text[1] \in {"-", "+"}
        digits == IF signed THEN Tail(text) ELSE text
    IN IF digits = <<>> \/ \E i \in 1..Len(digits) : digits[i] \notin Digits
       THEN [ok |-> FALSE]
       ELSE [ok |-> TRUE,
             value |-> IF signed /\ text[1] = "-"
                       THEN 0 - DecimalValue(digits) ELSE DecimalValue(digits)]

RECURSIVE MaxOf(_)
MaxOf(s) ==
    IF Len(s) = 1 THEN s[1]
    ELSE LET m == MaxOf(Tail(s)) IN IF s[1] >= m THEN s[1] ELSE m

\* lines 63-74 with len(pagination) in place of the largest label.
PagesCountOfCounting(pager) ==
    IF pager = <<>> THEN 1 ELSE Len(pager)

\* lines 63-74
PagesCountOf(pager) ==
    LET parses(label) == ParseInt(label).ok
        pages == [i \in 1..Len(SelectSeq(pager, parses)) |->
                     ParseInt(SelectSeq(pager, parses)[i]).value]
    IN IF pager = <<>> THEN 1
       ELSE IF pages = <<>> THEN 1 ELSE MaxOf(pages)

\* The except block, lines 79-81: the fallback is evaluated again, outside any try.
AnalyzeFallback(url) ==
    LET fallback == UrlDerivedName(url)
    IN IF fallback.raised
       THEN [raised |-> TRUE]
       ELSE [raised |-> FALSE, name |-> fallback.value, pages |-> 1]

analyzeCategoryPage(url, fetched) ==
    IF fetched.kind = "raise" THEN AnalyzeFallback(url)
    ELSE IF NotHtml(fetched)
    THEN \* line 56; an exception here is caught by line 79
         AnalyzeFallback(url)
    ELSE LET doc == fetched.doc
             fallback == UrlDerivedName(url)
         IN IF doc.h1 = None /\ fallback.raised
            THEN AnalyzeFallback(url)
            ELSE [raised |-> FALSE,
                  name |-> IF doc.h1 # None THEN doc.h1.some ELSE fallback.value,
                  pages |-> PagesCountOf(doc.pager)]

-----------------------------------------------------------------------------
(* extractItemsData, lines 84-106 *)

EmptyDict == [k \in {} |-> None]

\* extractItemsData without the try of line 98: a JSONDecodeError leaves the call.
extractItemsDataUnguarded(fetched) ==
    IF NotHtml(fetched) THEN [raised |-> FALSE, value |-> EmptyDict]
    ELSE IF fetched.doc.script.kind = "json"
    THEN [raised |-> FALSE, value |-> fetched.doc.script.data]
    ELSE IF fetched.doc.script.kind = "malformed"
    THEN [raised |-> TRUE]
    ELSE [raised |-> FALSE, value |-> EmptyDict]

\* The code catches every exception of the search and of json.loads, so the
\* call itself never raises.
extractItemsData(fetched) ==
    IF NotHtml(fetched) THEN [raised |-> FALSE, value |-> EmptyDict]
    ELSE IF fetched.doc.script.kind = "json"
    THEN [raised |-> FALSE, value |-> fetched.doc.script.data]
    ELSE [raised |-> FALSE, value |-> EmptyDict]

-----------------------------------------------------------------------------
(* extractProductId, lines 109-117 *)

NoImg == [tag |-> "missing"]

Img(id) == [tag |-> "img", id |-> id]

\* `not x` for an optional string
Falsy(x) == x = None \/ x = Some(<<>>)

extractProductId(productElement) ==
    IF productElement.img # NoImg /\ ~Falsy(productElement.img.id)
    THEN Some(Tail(productElement.img.id.some))
    ELSE None

-----------------------------------------------------------------------------
(* extractProductVariants, lines 120-134 *)

\* dict.get(key, None)
Get(d, key) == IF key \in DOMAIN d THEN Some(d[key]) ELSE None

\* A value of the decoded blob: a JSON array of items, or a JSON null; an item
\* is a JSON object or a JSON string.
JsonList(items) == [kind |-> "list", items |-> items]

JsonNull == [kind |-> "null"]

JsonObject(d) == [kind |-> "dict", d |-> d]

JsonString == [kind |-> "str"]

\* Iterating a null raises TypeError, .get on a string raises AttributeError.
extractProductVariants(itemsData, productId) ==
    IF productId = <<>> \/ productId \notin DOMAIN itemsData
    THEN [raised |-> FALSE, value |-> <<>>]
    ELSE LET entry == itemsData[productId]
         IN IF entry.kind # "list" THEN [raised |-> TRUE]
            ELSE IF \E i \in 1..Len(entry.items) : entry.items[i].kind # "dict"
            THEN [raised |-> TRUE]
            ELSE [raised |-> FALSE,
                  value |-> [i \in 1..Len(entry.items) |->
                                [article |-> Get(entry.items[i].d, "art"),
                                 mass |-> Get(entry.items[i].d, "mass"),
                                 price |-> Get(entry.items[i].d, "price")]]]

-----------------------------------------------------------------------------
(* urllib.parse.urljoin as line 166 and line 213 use it *)

EmptyUrl == [scheme |-> "", netloc |-> "", path |-> [abs |-> FALSE, segs |-> <<>>]]

UsesRelative == {"http", "https", "ftp", "file", ""}

\* line 166 with the href taken as it stands.
urljoinUnresolved(base, url) == url

urljoin(base, url) ==
    IF url = EmptyUrl THEN base
    ELSE LET scheme == IF url.scheme = "" THEN base.scheme ELSE url.scheme
         IN IF scheme # base.scheme \/ scheme \notin UsesRelative THEN url
            ELSE IF url.netloc # ""
            THEN [scheme |-> scheme, netloc |-> url.netloc, path |-> url.path]
            ELSE [scheme |-> scheme, netloc |-> base.netloc,
                  path |-> IF url.path.abs THEN url.path
                           ELSE [abs |-> TRUE,
                                 segs |-> Front(base.path.segs) \o url.path.segs]]

IsAbsoluteUrl(url) == url.scheme # ""

-----------------------------------------------------------------------------
(* getProductsInfoFromCatalog, lines 137-188 *)

NoLink == [tag |-> "missing"]

Link(href) == [tag |-> "a", href |-> href]

Element(a, img) == [a |-> a, img |-> img]

\* line 163
HasHref(product) ==
    product.a # NoLink /\ product.a.href # None /\ product.a.href # Some(EmptyUrl)

IndexOfId(info, productId) ==
    IF \E i \in 1..Len(info) : info[i].product_id = productId
    THEN CHOOSE i \in 1..Len(info) : info[i].product_id = productId
    ELSE 0

\* lines 172-180 with a list in place of the dict: every occurrence is appended.
StoreStubAppending(info, productId, fullUrl, variants) ==
    Append(info, [url |-> fullUrl, product_id |-> productId, variants |-> variants])

\* lines 172-180; productsInfo is a dict, kept here as its values in insertion order
StoreStub(info, productId, fullUrl, variants) ==
    LET at == IndexOfId(info, productId)
    IN IF at = 0
       THEN Append(info, [url |-> fullUrl, product_id |-> productId, variants |-> variants])
       ELSE [info EXCEPT ![at].variants = variants]

\* lines 161-180
RECURSIVE CatalogLoop(_, _, _)
CatalogLoop(productElements, itemsData, info) ==
    IF productElements = <<>> THEN [raised |-> FALSE, value |-> info]
    ELSE LET product == Head(productElements)
             rest == Tail(productElements)
         IN IF ~HasHref(product) THEN CatalogLoop(rest, itemsData, info)
            ELSE LET fullUrl == urljoin(BASE_URL, product.a.href.some)
                     productId == extractProductId(product)
                 IN IF Falsy(productId) THEN CatalogLoop(rest, itemsData, info)
                    ELSE LET variants == extractProductVariants(itemsData, productId.some)
                         IN IF variants.raised THEN [raised |-> TRUE]
                            ELSE CatalogLoop(rest, itemsData,
                                     StoreStub(info, productId.some, fullUrl, variants.value))

\* makeRequest is called on line 149, before the try of line 154: what it does
\* not catch leaves the function; everything after is caught by line 186.
getProductsInfoFromCatalog(fetched) ==
    IF fetched.kind = "raise" THEN [raised |-> TRUE]
    ELSE IF NotHtml(fetched) THEN [raised |-> FALSE, value |-> <<>>]
    ELSE LET itemsData == extractItemsData(fetched)
         IN IF itemsData.raised THEN [raised |-> FALSE, value |-> <<>>]
            ELSE LET looped == CatalogLoop(fetched.doc.listing, itemsData.value, <<>>)
                 IN IF looped.raised THEN [raised |-> FALSE, value |-> <<>>]
                    ELSE [raised |-> FALSE, value |-> looped.value]

\* lines 143-146: f"{categoryUrl}page/{page}/" in the split form of a URL
PageUrl(categoryUrl, p) ==
    IF p > 1
    THEN LET lastSeg == Last(categoryUrl)
             joined == IF lastSeg = <<>> THEN <<"page">>
                       ELSE Front(lastSeg) \o <<Last(lastSeg) \o "page">>
         IN Front(categoryUrl) \o <<joined, <<ToString(p)>>, <<>>>>
    ELSE categoryUrl

-----------------------------------------------------------------------------
(* parseProduct, lines 191-223 *)

\* str.replace("\xa0", " ")
ReplaceNbsp(text) == [i \in 1..Len(text) |-> IF text[i] = "\\xa0" THEN " " ELSE text[i]]

\* An attribute value with surrounding white space: str.strip() keeps the text.
Padded(url) == [padded |-> TRUE, text |-> url]

Strip(value) == value.text

\* None is the implicit return of the except block (line 222).
parseProduct(productInfo, fetched) ==
    IF fetched.kind = "raise" \/ NotHtml(fetched) THEN None
    ELSE LET doc == fetched.doc
         IN IF doc.image # None /\ doc.image.some.src = None
            THEN None   \* None.strip() raises AttributeError
            ELSE Some([url |-> productInfo.url,
                       name |-> doc.h1,
                       description |-> IF doc.description # None
                                       THEN Some(ReplaceNbsp(doc.description.some))
                                       ELSE None,
                       image |-> IF doc.image # None
                                 THEN Some(urljoin(BASE_URL, Strip(doc.image.some.src.some)))
                                 ELSE None,
                       variants |-> productInfo.variants])

-----------------------------------------------------------------------------
(* saveToJsonFile, lines 264-273 *)

\* json.dump writes the document piece by piece: the opening bracket, one piece
\* per category, the closing bracket.
Serialize(data) ==
    <<[tok |-> "["]>> \o [i \in 1..Len(data) |-> [tok |-> "category", v |-> data[i]]]
        \o <<[tok |-> "]"]>>

NoFile == [exists |-> FALSE, content |-> <<>>]

FileOf(content) == [exists |-> TRUE, content |-> content]

\* How a call can end: open() raises; open() succeeds (the file is truncated)
\* and json.dump raises after k pieces; everything is written.
SaveOutcomes(data) ==
    {[kind |-> "open_failed"], [kind |-> "ok"]}
        \cup {[kind |-> "dump_failed", written |-> k] : k \in 0..(Len(Serialize(data)) - 1)}

WriteJson(old, data, outcome) ==
    CASE outcome.kind = "open_failed" -> old
      [] outcome.kind = "dump_failed" -> FileOf(SubSeq(Serialize(data), 1, outcome.written))
      [] outcome.kind = "ok" -> FileOf(Serialize(data))

-----------------------------------------------------------------------------
(* The pages the site serves in the model *)

Label(n) == <<ToString(n)>>

LabelNext == <<"x">>

Heading == <<"Perenoski", " ", "dlya", " ", "sobak">>

CategoryDoc(h1, pager) == Doc(h1, pager, ScriptAbsent, <<>>, None, None)

CategoryDocs ==
    { CategoryDoc(Some(Heading), <<>>),
      CategoryDoc(None, <<Label(1), Label(2)>>),
      CategoryDoc(Some(Heading), <<LabelNext>>),
      CategoryDoc(Some(Heading), <<Label(2), LabelNext, Label(1)>>),
      CategoryDoc(None, <<Label(0)>>) }

PathUrl(isAbs, segs) == [scheme |-> "", netloc |-> "", path |-> [abs |-> isAbs, segs |-> segs]]

HrefA == PathUrl(TRUE, <<"shop", "a.html">>)

HrefB == PathUrl(FALSE, <<"shop", "b.html">>)

HrefCdn == [scheme |-> "http", netloc |-> "cdn.example", path |-> [abs |-> TRUE, segs |-> <<"c.html">>]]

IdA == <<"i", "1">>

IdB == <<"i", "2">>

VariantFull == JsonObject([k \in {"art", "mass", "price"} |->
                   CASE k = "art" -> "A-1" [] k = "mass" -> "1kg" [] k = "price" -> "100"])

VariantBare == JsonObject([k \in {"price"} |-> "250"])

ItemsA == [k \in {Tail(IdA)} |-> JsonList(<<VariantFull, VariantBare>>)]

ItemsNull == [k \in {Tail(IdA)} |-> JsonNull]

CatalogDoc(script, listing) == Doc(None, <<>>, script, listing, None, None)

ElemA == Element(Link(Some(HrefA)), Img(Some(IdA)))

ElemB == Element(Link(Some(HrefB)), Img(Some(IdB)))

ElemNoId == Element(Link(Some(HrefB)), Img(None))

CatalogDocs ==
    { CatalogDoc(ScriptJson(ItemsA), <<ElemA, ElemNoId, ElemB>>),
      CatalogDoc(ScriptJson(ItemsA), <<ElemA, ElemA>>),
      CatalogDoc(ScriptJson(ItemsNull), <<ElemB, ElemA>>) }

ProductDoc(image) ==
    Doc(Some(<<"Item">>), <<>>, ScriptAbsent, <<>>, Some(<<"good", "\\xa0", "item">>), image)

ImageA == Some([src |-> Some(Padded(PathUrl(TRUE, <<"img", "a.jpg">>)))])

ProductDocs == {ProductDoc(ImageA), ProductDoc(Some([src |-> None]))}

\* What makeRequest can answer, per use.
FullNet ==
    [category |-> {FetchNone, FetchRaise} \cup {Html(d) : d \in CategoryDocs},
     catalog |-> {FetchNone, FetchRaise} \cup {Html(d) : d \in CatalogDocs},
     product |-> {FetchNone, FetchRaise} \cup {Html(d) : d \in ProductDocs}]

\* A site that is down or serves single-page categories of one product.
QuietNet ==
    [category |-> {Html(CategoryDoc(Some(Heading), <<>>))},
     catalog |-> {FetchNone, Html(CatalogDoc(ScriptJson(ItemsA), <<ElemA, ElemA>>))},
     product |-> {FetchNone, Html(ProductDoc(ImageA))}]

-----------------------------------------------------------------------------
(* parseShop, lines 226-261 *)

NumCategories == Len(CATEGORIES)

ClearCategory ==
    /\ categoryName' = <<>>
    /\ pagesCount' = 0
    /\ page' = 0
    /\ productsInfo' = <<>>
    /\ stubIdx' = 1
    /\ goods' = <<>>
    /\ pagination' = None
    /\ requested' = <<>>
    /\ seen' = <<>>
    /\ parsed' = <<>>

\* lines 230-232: a new invocation starts with an empty result
BeginParseShop ==
    /\ runPc' = "category"
    /\ catIdx' = 1
    /\ result' = <<>>
    /\ saveCalls' = 0
    /\ fileBefore' = file
    /\ saveOutcome' = None
    /\ audit' = <<>>
    /\ abandoned' = {}
    /\ activeRuns' = activeRuns + 1
    /\ ClearCategory
    /\ UNCHANGED file

\* the for statement of line 234 moves on
NextCategory ==
    /\ catIdx' = catIdx + 1
    /\ runPc' = IF catIdx = NumCategories THEN "save" ELSE "category"
    /\ ClearCategory

\* lines 257-258 with the partial categoryData appended to the result.
CategoryFailedKeepingPartial ==
    /\ result' = Append(result, [name |-> categoryName, goods |-> goods])
    /\ audit' = Append(audit, [cat |-> catIdx, expected |-> goods])
    /\ abandoned' = abandoned \cup {catIdx}
    /\ NextCategory

\* lines 257-258 with the exception ending parseShop.
CategoryFailedAborting ==
    /\ result' = result
    /\ audit' = audit
    /\ abandoned' = abandoned \cup {catIdx}
    /\ catIdx' = catIdx
    /\ runPc' = "done"
    /\ ClearCategory

\* lines 257-258: the exception is logged and the loop goes on
CategoryFailed ==
    /\ result' = result
    /\ audit' = audit
    /\ abandoned' = abandoned \cup {catIdx}
    /\ NextCategory

\* line 238 to line 243
AnalyzeCategory(net) ==
    /\ runPc = "category"
    /\ \E fetched \in net.category :
          LET analysed == analyzeCategoryPage(CATEGORIES[catIdx], fetched)
          IN IF analysed.raised
             THEN CategoryFailed
             ELSE /\ categoryName' = analysed.name
                  /\ pagesCount' = analysed.pages
                  /\ page' = 1
                  /\ productsInfo' = <<>>
                  /\ stubIdx' = 1
                  /\ goods' = <<>>
                  /\ pagination' = fetched
                  /\ runPc' = "pages"
                  /\ UNCHANGED <<catIdx, result, audit, abandoned, requested, seen, parsed>>
    /\ UNCHANGED <<file, saveCalls, fileBefore, saveOutcome, activeRuns>>

\* lines 245-248: the next page of the category; `page` is the page to ask for
ExtractPage(net) ==
    /\ runPc = "pages"
    /\ stubIdx > Len(productsInfo)
    /\ page <= pagesCount
    /\ \E fetched \in net.catalog :
          LET stubs == getProductsInfoFromCatalog(fetched)
          IN IF stubs.raised
             THEN CategoryFailed
             ELSE /\ productsInfo' = stubs.value
                  /\ stubIdx' = 1
                  /\ page' = page + 1
                  /\ requested' = Append(requested, PageUrl(CATEGORIES[catIdx], page))
                  /\ seen' = seen \o stubs.value
                  /\ UNCHANGED <<runPc, catIdx, categoryName, pagesCount, goods, result,
                                 audit, abandoned, pagination, parsed>>
    /\ UNCHANGED <<file, saveCalls, fileBefore, saveOutcome, activeRuns>>

\* lines 252-253 with an assignment in place of append.
KeepProductReplacing(kept, productData) ==
    IF productData # None THEN <<productData.some>> ELSE kept

\* lines 252-253
KeepProduct(kept, productData) ==
    IF productData # None THEN Append(kept, productData.some) ELSE kept

\* lines 250-253, one stub
ParseProductStep(net) ==
    /\ runPc = "pages"
    /\ stubIdx <= Len(productsInfo)
    /\ \E fetched \in net.product :
          LET productData == parseProduct(productsInfo[stubIdx], fetched)
          IN /\ goods' = KeepProduct(goods, productData)
             /\ parsed' = Append(parsed, [stub |-> productsInfo[stubIdx], data |-> productData])
    /\ stubIdx' = stubIdx + 1
    /\ UNCHANGED <<runPc, catIdx, categoryName, pagesCount, page, productsInfo, result,
                   audit, abandoned, pagination, requested, seen>>
    /\ UNCHANGED <<file, saveCalls, fileBefore, saveOutcome, activeRuns>>

\* The goods the history of this category accounts for.
ExpectedGoods ==
    LET produced(p) == p.data # None
        keptOnes == SelectSeq(parsed, produced)
    IN [i \in 1..Len(keptOnes) |-> keptOnes[i].data.some]

PagesExhausted ==
    runPc = "pages" /\ stubIdx > Len(productsInfo) /\ page > pagesCount

\* line 255
FinishCategory ==
    /\ PagesExhausted
    /\ result' = Append(result, [name |-> categoryName, goods |-> goods])
    /\ audit' = Append(audit, [cat |-> catIdx, expected |-> ExpectedGoods])
    /\ UNCHANGED abandoned
    /\ NextCategory
    /\ UNCHANGED <<file, saveCalls, fileBefore, saveOutcome, activeRuns>>

\* lines 260-261 with saveToJsonFile, lines 264-273; parseShop returns
SaveToJsonFile ==
    /\ runPc = "save"
    /\ \E outcome \in SaveOutcomes(result) :
          /\ file' = WriteJson(file, result, outcome)
          /\ saveOutcome' = outcome
    /\ saveCalls' = saveCalls + 1
    /\ runPc' = "done"
    /\ activeRuns' = activeRuns - 1
    /\ UNCHANGED <<catIdx, categoryName, pagesCount, page, productsInfo, stubIdx, goods,
                   result, fileBefore, pagination, requested, seen, parsed, audit, abandoned>>

-----------------------------------------------------------------------------
(* __main__ and runScheduler, lines 275-284 *)

\* line 283
MainParseShop ==
    /\ schedPc = "main"
    /\ BeginParseShop
    /\ schedPc' = "startup"
    /\ UNCHANGED <<now, nextRun, fnVars>>

\* parseShop has returned to its caller: its locals are gone
Returned ==
    /\ runPc = "done"
    /\ runPc' = "idle"
    /\ catIdx' = 0
    /\ result' = <<>>
    /\ saveCalls' = 0
    /\ saveOutcome' = None
    /\ fileBefore' = file
    /\ audit' = <<>>
    /\ abandoned' = {}
    /\ UNCHANGED <<categoryName, pagesCount, page, productsInfo, stubIdx, goods, file,
                   pagination, requested, seen, parsed>>

\* line 276, once the startup run has returned: the job is due in three days
RegisterJob ==
    /\ schedPc = "startup"
    /\ Returned
    /\ nextRun' = now + EXECUTION_INTERVAL_DAYS
    /\ schedPc' = "poll"
    /\ UNCHANGED <<now, activeRuns, fnVars>>

\* line 279 with the due job started in a thread of its own.
RunPendingInThread ==
    /\ schedPc = "poll"
    /\ IF now >= nextRun
       THEN /\ BeginParseShop
            /\ nextRun' = now + EXECUTION_INTERVAL_DAYS
       ELSE UNCHANGED <<crawlVars, activeRuns, nextRun>>
    /\ schedPc' = "sleep"
    /\ UNCHANGED <<now, fnVars>>

\* line 279: schedule.run_pending() calls a due job in the calling thread
RunPending ==
    /\ schedPc = "poll"
    /\ IF now >= nextRun
       THEN BeginParseShop /\ schedPc' = "job"
       ELSE schedPc' = "sleep" /\ UNCHANGED <<crawlVars, activeRuns>>
    /\ UNCHANGED <<now, nextRun, fnVars>>

\* the job has returned: schedule sets next_run from the clock at that moment
JobReturned ==
    /\ schedPc = "job"
    /\ Returned
    /\ nextRun' = now + EXECUTION_INTERVAL_DAYS
    /\ schedPc' = "sleep"
    /\ UNCHANGED <<now, activeRuns, fnVars>>

\* line 280
Sleep ==
    /\ schedPc = "sleep"
    /\ schedPc' = "poll"
    /\ UNCHANGED <<crawlVars, now, nextRun, activeRuns, fnVars>>

\* A day passes, whatever the process is doing.
Tick ==
    /\ schedPc # "main"
    /\ now < MaxDays
    /\ now' = now + 1
    /\ UNCHANGED <<crawlVars, schedPc, nextRun, activeRuns, fnVars>>

-----------------------------------------------------------------------------
(* Specification of one parseShop run: the startup run of line 283 *)

Rest == UNCHANGED <<schedPc, now, nextRun, fnVars>>

Analyze == AnalyzeCategory(FullNet) /\ Rest

Extract == ExtractPage(FullNet) /\ Rest

Parse == ParseProductStep(FullNet) /\ Rest

Finish == FinishCategory /\ Rest

Save == SaveToJsonFile /\ Rest

\* shop_data.json as an earlier run left it
PreviousFiles ==
    {NoFile, FileOf(Serialize(<<[name |-> Heading, goods |-> <<>>]>>))}

InitCrawl ==
    /\ runPc = "idle"
    /\ catIdx = 0
    /\ categoryName = <<>>
    /\ pagesCount = 0
    /\ page = 0
    /\ productsInfo = <<>>
    /\ stubIdx = 1
    /\ goods = <<>>
    /\ result = <<>>
    /\ saveCalls = 0
    /\ saveOutcome = None
    /\ pagination = None
    /\ requested = <<>>
    /\ seen = <<>>
    /\ parsed = <<>>
    /\ audit = <<>>
    /\ abandoned = {}

InitSched ==
    /\ schedPc = "main"
    /\ now = 0
    /\ nextRun = 0
    /\ activeRuns = 0

NoFn == /\ fnIn = None
        /\ fnOut = None

Init ==
    /\ InitCrawl
    /\ file \in PreviousFiles
    /\ fileBefore = file
    /\ InitSched
    /\ NoFn

Next ==
    \/ MainParseShop
    \/ Analyze
    \/ Extract
    \/ Parse
    \/ Finish
    \/ Save

Spec == Init /\ [][Next]_vars

-----------------------------------------------------------------------------
(* Specification of the process: the startup run, then runScheduler *)

JobAnalyze == AnalyzeCategory(QuietNet) /\ Rest

JobExtract == ExtractPage(QuietNet) /\ Rest

JobParse == ParseProductStep(QuietNet) /\ Rest

InitProcess ==
    /\ InitCrawl
    /\ file = NoFile
    /\ fileBefore = file
    /\ InitSched
    /\ NoFn

NextProcess ==
    \/ MainParseShop
    \/ JobAnalyze
    \/ JobExtract
    \/ JobParse
    \/ Finish
    \/ Save
    \/ RegisterJob
    \/ RunPending
    \/ JobReturned
    \/ Sleep
    \/ Tick

SpecProcess == InitProcess /\ [][NextProcess]_vars

-----------------------------------------------------------------------------
(* Specification of the page loop over every pagination a page can carry *)

LabelTexts == {<<"1">>, <<"2">>, <<"0", "3">>, <<"x">>, <<>>, <<"-", "1">>}

\* the paginations of at most n labels
Pagers(n) == SeqUpTo(LabelTexts, n)

PagingNet ==
    [category |-> {FetchNone}
                    \cup {Html(CategoryDoc(h1, pager)) :
                            h1 \in {None, Some(Heading)}, pager \in Pagers(MaxLabels)},
     catalog |-> {FetchNone, Html(CatalogDoc(ScriptJson(ItemsA), <<ElemA, ElemA>>))},
     product |-> {FetchNone}]

PagingAnalyze == AnalyzeCategory(PagingNet) /\ Rest

PagingExtract == ExtractPage(PagingNet) /\ Rest

PagingParse == ParseProductStep(PagingNet) /\ Rest

NextPaging ==
    \/ MainParseShop
    \/ PagingAnalyze
    \/ PagingExtract
    \/ PagingParse
    \/ Finish
    \/ Save

SpecPaging == InitProcess /\ [][NextPaging]_vars

-----------------------------------------------------------------------------
(* Specification of analyzeCategoryPage as a function of its URL and of what *)
(* makeRequest answers                                                       *)

\* The configured URLs, one without its trailing slash, and a bare slug.
AnalyzeUrls ==
    {CATEGORIES[i] : i \in 1..NumCategories}
        \cup {Front(CATEGORIES[3]), << <<"furminatori">> >>}

AnalyzeFetches ==
    {FetchNone, FetchEmpty, FetchRaise}
        \cup {Html(CategoryDoc(h1, pager)) : h1 \in {None, Some(Heading)}, pager \in Pagers(MaxLabels)}

InitAnalyze ==
    /\ InitCrawl
    /\ file = NoFile
    /\ fileBefore = file
    /\ InitSched
    /\ fnIn \in {[fn |-> "analyzeCategoryPage", url |-> u, fetched |-> f] :
                    u \in AnalyzeUrls, f \in AnalyzeFetches}
    /\ fnOut = None

CallAnalyze ==
    /\ fnIn # None
    /\ fnIn.fn = "analyzeCategoryPage"
    /\ fnOut = None
    /\ fnOut' = Some(analyzeCategoryPage(fnIn.url, fnIn.fetched))
    /\ UNCHANGED <<crawlVars, schedVars, fnIn>>

NextAnalyze == CallAnalyze

SpecAnalyze == InitAnalyze /\ [][NextAnalyze]_vars

-----------------------------------------------------------------------------
(* Specification of getProductsInfoFromCatalog as a function of what         *)
(* makeRequest answers                                                       *)

Links == {NoLink, Link(None), Link(Some(EmptyUrl)),
          Link(Some(HrefA)), Link(Some(HrefB)), Link(Some(HrefCdn))}

Imgs == {NoImg, Img(None), Img(Some(<<>>)), Img(Some(<<"i">>)), Img(Some(IdA)), Img(Some(IdB))}

Elements == {Element(a, img) : a \in Links, img \in Imgs}

EntriesA == {JsonList(<<VariantFull, VariantBare>>), JsonList(<<VariantBare>>),
             JsonNull, JsonList(<<VariantFull, JsonString>>)}

EntriesB == {JsonList(<<VariantBare>>)}

Blobs ==
    {EmptyDict}
        \cup {[k \in {Tail(IdB)} |-> b] : b \in EntriesB}
        \cup {[k \in {Tail(IdA), Tail(IdB)} |-> IF k = Tail(IdA) THEN a ELSE b] :
                a \in EntriesA, b \in EntriesB}

Scripts == {ScriptAbsent, ScriptMalformed} \cup {ScriptJson(d) : d \in Blobs}

\* the answers whose listing has at most n elements
CatalogFetches(n) ==
    {FetchNone, FetchEmpty, FetchRaise}
        \cup {Html(CatalogDoc(script, listing)) :
                script \in Scripts, listing \in SeqUpTo(Elements, n)}

InitCatalog ==
    /\ InitCrawl
    /\ file = NoFile
    /\ fileBefore = file
    /\ InitSched
    /\ fnIn \in {[fn |-> "getProductsInfoFromCatalog", fetched |-> f] : f \in CatalogFetches(MaxElems)}
    /\ fnOut = None

CallCatalog ==
    /\ fnIn # None
    /\ fnIn.fn = "getProductsInfoFromCatalog"
    /\ fnOut = None
    /\ fnOut' = Some(getProductsInfoFromCatalog(fnIn.fetched))
    /\ UNCHANGED <<crawlVars, schedVars, fnIn>>

NextCatalog == CallCatalog

SpecCatalog == InitCatalog /\ [][NextCatalog]_vars

-----------------------------------------------------------------------------
(* Properties *)

Range(s) == {s[i] : i \in 1..Len(s)}

AuditCats == {audit[i].cat : i \in 1..Len(audit)}

\* C1: whenever the saveToJsonFile call of a run fails, at open() or inside
\* json.dump, shop_data.json holds after the run what it held before the run.
C1_FailedSaveKeepsFile ==
    (runPc = "done" /\ saveOutcome.kind # "ok" /\ fileBefore.exists) => file = fileBefore

\* A listing element the loop of lines 161-180 turns into a stub: a link with a
\* non-empty href and an image whose id is longer than its marker character.
ValidElement(e) ==
    /\ e.a.tag = "a"
    /\ e.a.href # None
    /\ e.a.href.some # EmptyUrl
    /\ e.img.tag = "img"
    /\ e.img.id # None
    /\ Len(e.img.id.some) >= 2

IdOf(e) == Tail(e.img.id.some)

Occurrences(listing, id) ==
    {i \in 1..Len(listing) : ValidElement(listing[i]) /\ IdOf(listing[i]) = id}

RepeatedIds(listing) ==
    {IdOf(listing[i]) : i \in {j \in 1..Len(listing) :
        ValidElement(listing[j]) /\ Cardinality(Occurrences(listing, IdOf(listing[j]))) >= 2}}

StubsWith(stubs, id) == {i \in 1..Len(stubs) : stubs[i].product_id = id}

CatalogCalled ==
    fnIn # None /\ fnIn.fn = "getProductsInfoFromCatalog" /\ fnOut # None

CatalogPageParsed == CatalogCalled /\ fnIn.fetched.kind = "html"

\* The blob entry of an identifier the listing shows is no list of objects.
IllTypedEntry(doc) ==
    /\ doc.script.kind = "json"
    /\ \E i \in 1..Len(doc.listing) :
          /\ ValidElement(doc.listing[i])
          /\ IdOf(doc.listing[i]) \in DOMAIN doc.script.data
          /\ LET entry == doc.script.data[IdOf(doc.listing[i])]
             IN \/ entry.kind # "list"
                \/ \E k \in 1..Len(entry.items) : entry.items[k].kind # "dict"

CarriesBlobVariants(doc, stubs, id) ==
    /\ Cardinality(StubsWith(stubs, id)) = 1
    /\ \A i \in StubsWith(stubs, id) :
          stubs[i].variants = extractProductVariants(extractItemsData(Html(doc)).value, id).value

C3_StubsComplete ==
    CatalogCalled =>
        IF fnIn.fetched.kind = "html"
        THEN LET listing == fnIn.fetched.doc.listing
                 stubs == fnOut.some.value
             IN /\ fnOut.some.raised = FALSE
                /\ \A i \in 1..Len(stubs) :
                      /\ DOMAIN stubs[i] = {"url", "product_id", "variants"}
                      /\ stubs[i].product_id # <<>>
                      /\ IsAbsoluteUrl(stubs[i].url)
                      /\ stubs[i].url.netloc # ""
                      /\ Occurrences(listing, stubs[i].product_id) # {}
                /\ Len(stubs) <= Cardinality({i \in 1..Len(listing) : ValidElement(listing[i])})
        ELSE fnOut.some.raised \/ fnOut.some.value = <<>>

C3_Witness ==
    /\ CatalogPageParsed
    /\ Len(fnIn.fetched.doc.listing) = 2
    /\ fnIn.fetched.doc.listing[1] = Element(Link(Some(HrefB)), Img(Some(<<"i">>)))
    /\ fnIn.fetched.doc.listing[2].a = Link(Some(HrefB))
    /\ Len(fnOut.some.value) = 1

\* The result is a subsequence of the configured categories in their order,
\* one entry at most per category, none for a category whose processing raised;
\* after a failure the run goes on to the remaining categories, and an entry
\* once appended is never changed.
C4_Subsequence ==
    /\ Len(result) = Len(audit)
    /\ \A i \in 1..Len(audit) :
          /\ audit[i].cat \in 1..NumCategories
          /\ audit[i].cat \notin abandoned
          /\ result[i].name \in {Heading, UrlDerivedName(CATEGORIES[audit[i].cat]).value}
    /\ \A i, j \in 1..Len(audit) : i < j => audit[i].cat < audit[j].cat
    /\ runPc \in {"save", "done"} => AuditCats \cup abandoned = 1..NumCategories

\* C4: C4_Subsequence holds throughout the run, and every step of the run
\* leaves the entries already in the result as they are.
C4_OmitsFailedCategory ==
    []C4_Subsequence /\ [][IsPrefix(result, result')]_vars

C4_Witness ==
    /\ runPc = "done"
    /\ abandoned = {2}
    /\ Len(result) = 2
    /\ result[2].goods # <<>>

\* C5: saveToJsonFile is called exactly once in a run, and only when every
\* configured category has been completed or abandoned.
C5_SavedOnce ==
    /\ saveCalls <= 1
    /\ runPc = "done" => saveCalls = 1
    /\ runPc # "done" => saveCalls = 0
    /\ saveCalls = 1 => AuditCats \cup abandoned = 1..NumCategories

C5_Witness ==
    /\ runPc = "done"
    /\ saveCalls = 1
    /\ abandoned # {}
    /\ result # <<>>

StubsOf(entries) == [i \in 1..Len(entries) |-> entries[i].stub]

C7_AnalyzeNeverRaises ==
    (fnIn # None /\ fnIn.fn = "analyzeCategoryPage" /\ fnOut # None) =>
        /\ fnOut.some.raised = FALSE
        /\ NotHtml(fnIn.fetched) =>
              /\ fnOut.some.name = UrlDerivedName(fnIn.url).value
              /\ fnOut.some.pages = 1

ValidIdsInOrder(listing) ==
    LET first(i) == ValidElement(listing[i])
                        /\ \A j \in 1..(i - 1) :
                              ~(ValidElement(listing[j]) /\ IdOf(listing[j]) = IdOf(listing[i]))
        firsts == SelectSeq([i \in 1..Len(listing) |-> i], first)
    IN [k \in 1..Len(firsts) |-> IdOf(listing[firsts[k]])]

\* C8: on a fetched page whose items_v blob is malformed, extractItemsData
\* answers the empty mapping and getProductsInfoFromCatalog answers every valid
\* stub of the page, each with no variants, without raising.
C8_MalformedBlob ==
    (CatalogPageParsed /\ fnIn.fetched.doc.script = ScriptMalformed) =>
        LET stubs == fnOut.some.value
        IN /\ extractItemsData(fnIn.fetched) = [raised |-> FALSE, value |-> EmptyDict]
           /\ fnOut.some.raised = FALSE
           /\ [i \in 1..Len(stubs) |-> stubs[i].product_id]
                 = ValidIdsInOrder(fnIn.fetched.doc.listing)
           /\ \A i \in 1..Len(stubs) : stubs[i].variants = <<>>

C8_Witness ==
    /\ CatalogPageParsed
    /\ fnIn.fetched.doc.script = ScriptMalformed
    /\ Len(fnOut.some.value) = 2

\* C9: at most one parseShop run is in progress at any moment, the startup run
\* and the scheduled runs included; while one is in progress the scheduler
\* loop is inside it and polls nothing.
C9_NoOverlap ==
    /\ activeRuns <= 1
    /\ activeRuns = 1 => schedPc \in {"startup", "job"}

\* A scheduled run that is still in progress a whole interval after it fell due.
C9_Witness ==
    /\ activeRuns = 1
    /\ schedPc = "job"
    /\ runPc = "pages"
    /\ now >= nextRun + EXECUTION_INTERVAL_DAYS

ParsedLabels(pager) ==
    {ParseInt(pager[i]).value : i \in {j \in 1..Len(pager) : ParseInt(pager[j]).ok}}

====
